---- MODULE Spec2Model ----
(***************************************************************************)
(* Kubeflow "compute pi" map-reduce pipelines over a Minio object store.   *)
(*                                                                         *)
(* Two variants of compute_pi are modelled, as the KFP runtime executes    *)
(* them: the reusable-components variant (sample -> "Upload to Minio" per  *)
(* seed, mc_find, cat to JSON, average, upload of the average) and the     *)
(* lightweight variant (sample_func uploads its own files, one collect     *)
(* step, average).  Runs share one object store.                           *)
(*                                                                         *)
(* Strings are sequences of one-character strings, so that path building,  *)
(* rstrip, prefix listing and regular-expression search are computed       *)
(* character by character.                                                 *)
(***************************************************************************)
EXTENDS Integers, Sequences, FiniteSets, TLC

VARIABLES variant, n_samples, output_location, pc, error, seeds, tasks,
          rng, store, found, all_samples, final_result,
          params, ops, raised, clusters

vars == <<variant, n_samples, output_location, pc, error, seeds, tasks,
          rng, store, found, all_samples, final_result, params, ops, raised,
          clusters>>

\* the variables of the pipelines of the other notebooks (my_pipeline, pipeline_calc)
other_vars == <<params, ops, raised, clusters>>

(***************************************************************************)
(* Bounds of the model.                                                    *)
(***************************************************************************)
\* largest n_samples of a run when one run is explored
MaxSamples == 3
\* largest n_samples of a run when two concurrent runs are explored
MaxSamplesTwo == 1
\* longest list of numbers given to average_func on its own
MaxNumbers == 4
\* how often the upload step of one loop item is executed at most
MaxPuts == 2
\* how often the average_op factory is called at most
MaxCalls == 2
\* fractional digits kept when a float is written as text
ReprDigits == 3

Runs == {1, 2}
Variants == {"reusable", "lightweight"}

(***************************************************************************)
(* Text.                                                                   *)
(***************************************************************************)
Digits == <<"0", "1", "2", "3", "4", "5", "6", "7", "8", "9">>

\* the characters of the keys, in ASCII order
Alphabet == <<"-", ".", "/", "0", "1", "2", "3", "4", "5", "6", "7", "8", "9",
              "_", "a", "b", "c", "d", "e", "f", "g", "h", "i", "j", "k", "l",
              "m", "n", "o", "p", "q", "r", "s", "t", "u", "v", "w", "x", "y",
              "z">>

Ord(c) == CHOOSE i \in 1..Len(Alphabet) : Alphabet[i] = c

RECURSIVE NatToStr(_)
NatToStr(n) == IF n < 10 THEN <<Digits[n + 1]>>
               ELSE NatToStr(n \div 10) \o <<Digits[(n % 10) + 1]>>

\* str(i) of a Python int
IntToStr(i) == IF i < 0 THEN <<"-">> \o NatToStr(0 - i) ELSE NatToStr(i)

IsDigit(c) == \E d \in 1..10 : Digits[d] = c
DigitVal(c) == (CHOOSE d \in 1..10 : Digits[d] = c) - 1

RECURSIVE DigitsToNat(_)
DigitsToNat(s) == IF Len(s) = 0 THEN 0
                  ELSE 10 * DigitsToNat(SubSeq(s, 1, Len(s) - 1)) + DigitVal(s[Len(s)])

\* a text is a number when it is an optional '-' followed by digits only
IsNumberText(s) ==
    LET body == IF Len(s) > 0 /\ s[1] = "-" THEN Tail(s) ELSE s
    IN  Len(body) > 0 /\ \A i \in 1..Len(body) : IsDigit(body[i])

\* the number a text stands for (int(s), float(s)); only asked of a number text
ParseNumber(s) == IF s[1] = "-" THEN 0 - DigitsToNat(Tail(s)) ELSE DigitsToNat(s)

\* str.rstrip('/')
RECURSIVE rstrip_slash(_)
rstrip_slash(s) == IF Len(s) > 0 /\ s[Len(s)] = "/"
                   THEN rstrip_slash(SubSeq(s, 1, Len(s) - 1))
                   ELSE s

StartsWith(s, p) == Len(p) <= Len(s) /\ SubSeq(s, 1, Len(p)) = p
EndsWith(s, p) == Len(p) <= Len(s) /\ SubSeq(s, Len(s) - Len(p) + 1, Len(s)) = p

\* byte-wise order of two texts, the order of an object listing
RECURSIVE LexLess(_, _)
LexLess(a, b) ==
    IF Len(b) = 0 THEN FALSE
    ELSE IF Len(a) = 0 THEN TRUE
    ELSE IF a[1] = b[1] THEN LexLess(Tail(a), Tail(b))
    ELSE Ord(a[1]) < Ord(b[1])

RECURSIVE SortKeys(_)
SortKeys(S) ==
    IF S = {} THEN <<>>
    ELSE LET m == CHOOSE k \in S : \A o \in S \ {k} : LexLess(k, o)
         IN  <<m>> \o SortKeys(S \ {m})

(***************************************************************************)
(* Regular expressions.  A pattern is a sequence of elements: a literal    *)
(* character, "." (any one character), ".*" or "(^|/)".                    *)
(***************************************************************************)
Lit(c) == [t |-> "lit", c |-> c]
AnyChar == [t |-> "any", c |-> "."]
AnyStar == [t |-> "anystar", c |-> ".*"]
BosOrSlash == [t |-> "bos_or_slash", c |-> "(^|/)"]
EndOfText == [t |-> "eos", c |-> "$"]

\* the elements of the text 'result.out' read as a pattern: its '.' is a wildcard
result_out_pattern ==
    <<Lit("r"), Lit("e"), Lit("s"), Lit("u"), Lit("l"), Lit("t"), AnyChar,
      Lit("o"), Lit("u"), Lit("t")>>

\* the pattern matches a part of s that starts at position i
RECURSIVE MatchHere(_, _, _)
MatchHere(pat, s, i) ==
    IF Len(pat) = 0 THEN TRUE
    ELSE LET e == pat[1]
             rest == Tail(pat)
         IN  CASE e.t = "lit" -> i <= Len(s) /\ s[i] = e.c /\ MatchHere(rest, s, i + 1)
               [] e.t = "any" -> i <= Len(s) /\ MatchHere(rest, s, i + 1)
               [] e.t = "anystar" -> \E j \in i..(Len(s) + 1) : MatchHere(rest, s, j)
               [] e.t = "bos_or_slash" ->
                     \/ i = 1 /\ MatchHere(rest, s, i)
                     \/ i <= Len(s) /\ s[i] = "/" /\ MatchHere(rest, s, i + 1)
               [] e.t = "eos" -> i = Len(s) + 1 /\ MatchHere(rest, s, i)

\* Python re.match: the pattern matches at the start of s
re_match(pat, s) == MatchHere(pat, s, 1)

\* Go regexp.MatchString, as mc find --regex uses it: the pattern matches somewhere in s
regexp_MatchString(pat, s) == \E i \in 1..(Len(s) + 1) : MatchHere(pat, s, i)

(***************************************************************************)
(* Floats are exact fractions [num, den] in lowest terms with den > 0.     *)
(***************************************************************************)
Abs(i) == IF i < 0 THEN 0 - i ELSE i

RECURSIVE GCD(_, _)
GCD(a, b) == IF b = 0 THEN a ELSE GCD(b, a % b)

Frac(n, d) == LET g == GCD(Abs(n), d) IN [num |-> n \div g, den |-> d \div g]

RECURSIVE SumSeq(_)
SumSeq(s) == IF Len(s) = 0 THEN 0 ELSE s[1] + SumSeq(Tail(s))

\* the fractional digits of rem/den, at most k of them, without trailing zeros
RECURSIVE FracDigits(_, _, _)
FracDigits(rem, den, k) ==
    IF k = 0 \/ rem = 0 THEN <<>>
    ELSE <<Digits[((rem * 10) \div den) + 1]>> \o FracDigits((rem * 10) % den, den, k - 1)

\* str(f) of a Python float, cut after ReprDigits fractional digits: 2.0 is "2.0"
FloatToStr(f) ==
    LET a == Abs(f.num)
        fd == FracDigits(a % f.den, f.den, ReprDigits)
    IN  (IF f.num < 0 THEN <<"-">> ELSE <<>>) \o NatToStr(a \div f.den) \o <<".">>
        \o (IF Len(fd) = 0 THEN <<"0">> ELSE fd)

(***************************************************************************)
(* The object store: a function from keys "<bucket>/<object name>" to the  *)
(* stored text.  writers and puts record who wrote a key and how often.    *)
(***************************************************************************)
Keys == DOMAIN store

\* mc cp with a slip: the text is appended to the object a key already has
PutObject_Append(st, key, text, writer) ==
    [k \in (DOMAIN st) \cup {key} |->
        IF k = key
        THEN [content |-> (IF key \in DOMAIN st THEN st[key].content ELSE <<>>) \o text,
              writers |-> (IF key \in DOMAIN st THEN st[key].writers ELSE {}) \cup {writer},
              puts |-> (IF key \in DOMAIN st THEN st[key].puts ELSE 0) + 1]
        ELSE st[k]]

PutObject(st, key, text, writer) ==
    [k \in (DOMAIN st) \cup {key} |->
        IF k = key
        THEN [content |-> text,
              writers |-> (IF key \in DOMAIN st THEN st[key].writers ELSE {}) \cup {writer},
              puts |-> (IF key \in DOMAIN st THEN st[key].puts ELSE 0) + 1]
        ELSE st[k]]

\* a recursive listing: the keys that start with the prefix text
ListObjects(st, prefix) == {k \in DOMAIN st : StartsWith(k, prefix)}

(***************************************************************************)
(* The functions of the notebooks.                                         *)
(***************************************************************************)
constant == 10

\* variants of create_seeds_func with a slip: no offset, range from 1, range to n
create_seeds_func_NoOffset(n) == [i \in 1..n |-> constant]
create_seeds_func_FromOne(n) == [i \in 1..n |-> constant + i]
create_seeds_func_Inclusive(n) == [i \in 1..(n + 1) |-> constant + (i - 1)]

\* create_seeds_func: [constant + i for i in range(n_samples)]
create_seeds_func(n) == [i \in 1..n |-> constant + (i - 1)]

\* random.random() * 2 - 1 is modelled on a grid: a coordinate k stands for k / GridScale
GridScale == 2

\* the points random.seed(seed) may lead to: inside and outside the unit circle
DrawPoints == {<<0, 0>>, <<0 - GridScale, 0 - GridScale>>}

\* every point random.random() * 2 - 1 can give on the grid: -1 <= x, y < 1
Grid == {<<x, y>> : x \in (0 - GridScale)..(GridScale - 1), y \in (0 - GridScale)..(GridScale - 1)}

\* sample_func with a slip: the boundary of the circle counts as outside
sample_result_Strict(x, y) == IF (x * x) + (y * y) < GridScale * GridScale THEN 4 ELSE 0

\* sample_func: 4 if the point is in the unit circle, 0 otherwise
sample_result(x, y) == IF (x * x) + (y * y) <= GridScale * GridScale THEN 4 ELSE 0

\* average_func with a slip: the division is the integer division
average_func_FloorDiv(numbers) == Frac(SumSeq(numbers) \div Len(numbers), 1)

\* average_func with a slip: divides by one more than the length
average_func_OffByOne(numbers) == Frac(SumSeq(numbers), Len(numbers) + 1)

\* average_func: sum(numbers) / len(numbers), for a non-empty list
average_func(numbers) == Frac(SumSeq(numbers), Len(numbers))

NoResult == [num |-> 0, den |-> 0]

(***************************************************************************)
(* Paths.  compute_pi runs at pipeline-definition time, when its arguments *)
(* are placeholders; a placeholder is one element of a text and is         *)
(* replaced by the run's value when a step starts.                         *)
(***************************************************************************)
OUTPUT_LOCATION_PARAM == "{{pipelineparam:op=;name=output_location}}"
RUN_ID_PLACEHOLDER == "{{workflow.uid}}"
LOOP_ITEM_PLACEHOLDER == "{{item}}"

\* this_run_output_location with a slip: the run identifier is left out
this_run_output_location_NoRunId ==
    rstrip_slash(<<OUTPUT_LOCATION_PARAM>>) \o <<"/", "r", "u", "n">>

this_run_output_location ==
    rstrip_slash(<<OUTPUT_LOCATION_PARAM>>) \o <<"/">> \o <<RUN_ID_PLACEHOLDER>>

sample_output_location == this_run_output_location \o <<"/", "s", "e", "e", "d", "s">>

result_out == <<"r", "e", "s", "u", "l", "t", ".", "o", "u", "t">>

\* copy_sample_destination with a slip: the seed is left out of the path
copy_sample_destination_NoSeed == sample_output_location \o <<"/">> \o result_out

\* reusable variant: f"{sample_output_location}{seed}/result.out"
copy_sample_destination ==
    sample_output_location \o <<LOOP_ITEM_PLACEHOLDER>> \o <<"/">> \o result_out

\* reusable variant: f"{this_run_output_location}/result.out"
copy_average_destination == this_run_output_location \o <<"/">> \o result_out

\* the search pattern with a slip: no '/' in front of the file name
reusable_search_pattern_NoSlash == result_out_pattern

\* reusable variant: r'/result.out'
reusable_search_pattern == <<Lit("/")>> \o result_out_pattern

\* the lightweight pattern had it been anchored at the end: r'.*(^|/)result.out$'
lightweight_search_pattern_Anchored ==
    <<AnyStar, BosOrSlash>> \o result_out_pattern \o <<EndOfText>>

\* lightweight variant: r'.*(^|/)result.out'
lightweight_search_pattern == <<AnyStar, BosOrSlash>> \o result_out_pattern

\* the run identifier with a slip: every run gets the same one
RunId_Shared(r) == <<"r", "1">>

\* the run identifier the platform gives run r
RunId(r) == <<"r">> \o IntToStr(r)

\* a definition-time text with its placeholders replaced by the run's values
RECURSIVE Resolve(_, _, _)
Resolve(text, r, item) ==
    IF Len(text) = 0 THEN <<>>
    ELSE (CASE text[1] = OUTPUT_LOCATION_PARAM -> output_location[r]
            [] text[1] = RUN_ID_PLACEHOLDER -> RunId(r)
            [] text[1] = LOOP_ITEM_PLACEHOLDER -> item
            [] OTHER -> <<text[1]>>)
         \o Resolve(Tail(text), r, item)

\* lightweight variant: the bucket is an argument of its own
minio_bucket == <<"b">>

\* to_output with a slip: only the result is stored
to_output_ResultOnly == <<<<"r", "e", "s", "u", "l", "t">>>>

\* lightweight sample_func: the variables it stores, in the order of to_output
to_output == <<<<"x">>, <<"y">>, <<"r", "e", "s", "u", "l", "t">>, <<"s", "e", "e", "d">>>>

\* lightweight sample_func: tempfile = f"{varname}.out"
tempfile(varname) == varname \o <<".", "o", "u", "t">>

\* lightweight sample_func: f"{minio_output_path.rstrip('/')}/seed_{seed}/{tempfile}"
sample_func_destination(minio_output_path, seed, file) ==
    rstrip_slash(minio_output_path) \o <<"/", "s", "e", "e", "d", "_">> \o IntToStr(seed)
    \o <<"/">> \o file

\* utilities.copy_to_minio: the object lands in the bucket under the destination
copy_to_minio_key(bucket, destination) == bucket \o <<"/">> \o destination

\* mc_find with a slip: the base path is listed as a directory, "<base path>/"
mc_find_Directory(st, base_path, pattern) ==
    SortKeys({k \in ListObjects(st, base_path \o <<"/">>) : regexp_MatchString(pattern, k)})

\* mc find with a slip: the pattern is not applied
mc_find_NoRegex(st, base_path, pattern) == SortKeys(ListObjects(st, base_path))

\* mc find my_minio/<base path> --regex <pattern>: the keys whose text starts
\* with the base path (an object listing is by key prefix, not by directory) and
\* whose path matches the pattern, one per line in listing order.  The alias
\* my_minio/ that mc cp and mc find both put in front of a key is left out.
mc_find(st, base_path, pattern) ==
    SortKeys({k \in ListObjects(st, base_path) : regexp_MatchString(pattern, k)})

\* utilities.minio_find_files_matching_pattern: the object names of the bucket
\* under the prefix whose path relative to the prefix matches the pattern
minio_find_files_matching_pattern(st, bucket, pattern, prefix) ==
    LET root == bucket \o <<"/">>
        listed == ListObjects(st, root \o prefix)
        name(k) == SubSeq(k, Len(root) + 1, Len(k))
        relative(k) == SubSeq(k, Len(root) + Len(prefix) + 1, Len(k))
    IN  SortKeys({name(k) : k \in {l \in listed : re_match(pattern, relative(l))}})

(***************************************************************************)
(* State.                                                                  *)
(*   pc[r]      where run r stands: "unsubmitted", "start", "parallel_for",*)
(*              "found", "gathered", "averaged", "done"                    *)
(*   error[r]   "none" or the error that failed a step of run r            *)
(*   seeds[r]   the output of create_seeds                                 *)
(*   tasks[r]   one record per loop item of the ParallelFor                *)
(*   rng        the point random.seed(seed) leads to, per seed used so far *)
(*   store      the object store                                           *)
(***************************************************************************)
OutputLocations == {<<"o">>, <<"o", "/">>}

\* the reusable variant takes the bucket as the head of output_location
OutputLocationFor(v, loc) == IF v = "reusable" THEN minio_bucket \o <<"/">> \o loc ELSE loc

NewTask == [st |-> "pending", x |-> 0, y |-> 0, result |-> 0, uploaded |-> 0,
            minio_destination |-> <<>>]
NotFound == [ran |-> FALSE, files |-> <<>>]

InitRest ==
    /\ error = [r \in Runs |-> "none"]
    /\ seeds = [r \in Runs |-> <<>>]
    /\ tasks = [r \in Runs |-> <<>>]
    /\ rng = {}
    /\ store = [k \in {} |-> 0]
    /\ found = [r \in Runs |-> NotFound]
    /\ all_samples = [r \in Runs |-> <<>>]
    /\ final_result = [r \in Runs |-> NoResult]
    /\ params = <<>>
    /\ ops = <<>>
    /\ raised = "none"
    /\ clusters = {}

\* one run is submitted
Init ==
    /\ \E v \in Variants, n \in (0 - 1)..MaxSamples, loc \in OutputLocations :
          /\ variant = [r \in Runs |-> v]
          /\ n_samples = [r \in Runs |-> IF r = 1 THEN n ELSE 0]
          /\ output_location = [r \in Runs |-> OutputLocationFor(v, loc)]
    /\ pc = [r \in Runs |-> IF r = 1 THEN "start" ELSE "unsubmitted"]
    /\ InitRest

\* two runs are submitted with the same location in the same bucket
InitTwo ==
    /\ variant \in [Runs -> Variants]
    /\ n_samples \in [Runs -> 0..MaxSamplesTwo]
    /\ \E loc \in OutputLocations :
          output_location = [r \in Runs |-> OutputLocationFor(variant[r], loc)]
    /\ pc = [r \in Runs |-> "start"]
    /\ InitRest

(***************************************************************************)
(* Steps of a run.                                                         *)
(***************************************************************************)
\* seeds = create_seeds_op(n_samples); the ParallelFor gets one task per item
CreateSeeds(r) ==
    /\ pc[r] = "start"
    /\ error[r] = "none"
    /\ seeds' = [seeds EXCEPT ![r] = create_seeds_func(n_samples[r])]
    /\ tasks' = [tasks EXCEPT ![r] = [i \in 1..Len(seeds'[r]) |-> NewTask]]
    /\ pc' = [pc EXCEPT ![r] = "parallel_for"]
    /\ UNCHANGED other_vars
    /\ UNCHANGED <<variant, n_samples, output_location, error, rng, store, found,
                   all_samples, final_result>>

\* the create_seeds step fails (its container ends with an error)
CreateSeedsFails(r) ==
    /\ pc[r] = "start"
    /\ error[r] = "none"
    /\ error' = [error EXCEPT ![r] = "StepFailed"]
    /\ UNCHANGED other_vars
    /\ UNCHANGED <<variant, n_samples, output_location, pc, seeds, tasks, rng, store,
                   found, all_samples, final_result>>

\* the loop item of task i as the step receives it, and the seed it parses to
ItemText(r, i) == IntToStr(seeds[r][i])
SeedOf(r, i) == ParseNumber(ItemText(r, i))

\* sample_func with a slip: no random.seed(seed), the draws come from a stream
\* that other invocations have advanced
Draws_NotReseeded(seed) == DrawPoints

\* random.seed(seed), then two draws: the same seed always leads to the same point
Draws(seed) ==
    IF \E d \in rng : d.seed = seed
    THEN {<<d.x, d.y>> : d \in {e \in rng : e.seed = seed}}
    ELSE DrawPoints

\* the computing part of sample_func, in either variant
Sample(r, i) ==
    /\ pc[r] \notin {"unsubmitted", "start"}
    /\ i \in DOMAIN tasks[r]
    /\ tasks[r][i].st = "pending"
    /\ \E p \in Draws(SeedOf(r, i)) :
          /\ rng' = rng \cup {[seed |-> SeedOf(r, i), x |-> p[1], y |-> p[2]]}
          /\ tasks' = [tasks EXCEPT ![r][i] =
                          [st |-> "sampled", x |-> p[1], y |-> p[2],
                           result |-> sample_result(p[1], p[2]), uploaded |-> 0,
                           minio_destination |-> <<>>]]
    /\ UNCHANGED other_vars
    /\ UNCHANGED <<variant, n_samples, output_location, pc, error, seeds, store, found,
                   all_samples, final_result>>

\* the sample step of a loop item fails before it has a result
SampleFails(r, i) ==
    /\ pc[r] \notin {"unsubmitted", "start"}
    /\ i \in DOMAIN tasks[r]
    /\ tasks[r][i].st = "pending"
    /\ tasks' = [tasks EXCEPT ![r][i].st = "failed"]
    /\ error' = [error EXCEPT ![r] = "StepFailed"]
    /\ UNCHANGED other_vars
    /\ UNCHANGED <<variant, n_samples, output_location, pc, seeds, rng, store, found,
                   all_samples, final_result>>

\* echo "$4" > "$5", and the output as the platform reads it from the file: one
\* newline at the end is cut off
echo(text) == text \o <<"\n">>
OutputParameter(file_text) ==
    IF Len(file_text) > 0 /\ file_text[Len(file_text)] = "\n"
    THEN SubSeq(file_text, 1, Len(file_text) - 1) ELSE file_text

\* the script of "Upload to Minio" with a slip: sh -x without -e, every command
\* is tried and the status is the one of the last
upload_to_minio_NoErrexit(st, file_text, destination, writer, failure) ==
    [store |-> IF failure = "none" THEN PutObject(st, destination, file_text, writer) ELSE st,
     output_file |-> echo(destination),
     exit |-> 0]

\* the script of "Upload to Minio" under sh -e: mc config host add, mc cp, echo;
\* failure names the command that fails, if one does
upload_to_minio(st, file_text, destination, writer, failure) ==
    IF failure = "none"
    THEN [store |-> PutObject(st, destination, file_text, writer),
          output_file |-> echo(destination),
          exit |-> 0]
    ELSE [store |-> st, output_file |-> <<>>, exit |-> 1]

\* reusable variant, "Upload to Minio": mc cp <result file> my_minio/<destination>
CopySample(r, i) ==
    /\ variant[r] = "reusable"
    /\ i \in DOMAIN tasks[r]
    /\ tasks[r][i].st = "sampled"
    /\ LET done == upload_to_minio(store,
                                   IntToStr(tasks[r][i].result),
                                   Resolve(copy_sample_destination, r, ItemText(r, i)),
                                   <<r, i>>, "none")
       IN  /\ store' = done.store
           /\ tasks' = [tasks EXCEPT ![r][i].st = "done", ![r][i].uploaded = 1,
                                     ![r][i].minio_destination =
                                         OutputParameter(done.output_file)]
    /\ UNCHANGED other_vars
    /\ UNCHANGED <<variant, n_samples, output_location, pc, error, seeds, rng, found,
                   all_samples, final_result>>

\* the text sample_func writes for a variable: str(value)
OutputText(t, seed, varname) ==
    CASE varname = <<"x">> -> FloatToStr(Frac(t.x, GridScale))
      [] varname = <<"y">> -> FloatToStr(Frac(t.y, GridScale))
      [] varname = <<"r", "e", "s", "u", "l", "t">> -> IntToStr(t.result)
      [] OTHER -> IntToStr(seed)

\* lightweight variant, sample_func: the next pass of its loop over to_output
UploadOutput(r, i) ==
    /\ variant[r] = "lightweight"
    /\ i \in DOMAIN tasks[r]
    /\ tasks[r][i].st = "sampled"
    /\ LET t == tasks[r][i]
           varname == to_output[t.uploaded + 1]
           destination == sample_func_destination(Resolve(sample_output_location, r, <<>>),
                                                  SeedOf(r, i), tempfile(varname))
       IN  /\ store' = PutObject(store, copy_to_minio_key(minio_bucket, destination),
                                 OutputText(t, SeedOf(r, i), varname), <<r, i>>)
           /\ tasks' = [tasks EXCEPT ![r][i].uploaded = t.uploaded + 1,
                                     ![r][i].st = IF t.uploaded + 1 = Len(to_output)
                                                  THEN "done" ELSE "sampled"]
    /\ UNCHANGED other_vars
    /\ UNCHANGED <<variant, n_samples, output_location, pc, error, seeds, rng, found,
                   all_samples, final_result>>

\* an upload of a sample task fails: in the reusable variant a command of the
\* script (the connection setup or the copy), in the lightweight variant the
\* client raises
UploadFails(r, i) ==
    /\ pc[r] # "unsubmitted"
    /\ i \in DOMAIN tasks[r]
    /\ tasks[r][i].st = "sampled"
    /\ IF variant[r] = "reusable"
       THEN \E failure \in {"mc config host add", "mc cp"} :
               LET ended == upload_to_minio(store,
                                IntToStr(tasks[r][i].result),
                                Resolve(copy_sample_destination, r, ItemText(r, i)),
                                <<r, i>>, failure)
               IN  /\ store' = ended.store
                   /\ tasks' = [tasks EXCEPT
                                   ![r][i].st = IF ended.exit = 0 THEN "done" ELSE "failed",
                                   ![r][i].minio_destination =
                                       OutputParameter(ended.output_file)]
                   /\ error' = IF ended.exit = 0 THEN error
                               ELSE [error EXCEPT ![r] = "StorageUnavailable"]
       ELSE /\ tasks' = [tasks EXCEPT ![r][i].st = "failed"]
            /\ error' = [error EXCEPT ![r] = "StorageUnavailable"]
            /\ UNCHANGED store
    /\ UNCHANGED other_vars
    /\ UNCHANGED <<variant, n_samples, output_location, pc, seeds, rng, found,
                   all_samples, final_result>>

\* the dependency of the find step with a slip: no .after() at all
AfterCopyOps_Missing(r) == TRUE

\* reusable variant: for op in copy_ops: files_to_cat.after(op)
AfterCopyOps(r) == \A i \in DOMAIN tasks[r] : tasks[r][i].st = "done"

\* lightweight variant: for s in sample_ops: collect_results_op_.after(s)
AfterSampleOps(r) == \A i \in DOMAIN tasks[r] : tasks[r][i].st = "done"

\* the find step with a slip: it waits for the copy steps to end, not to succeed
McFind_AfterFailedToo(r) ==
    /\ variant[r] = "reusable"
    /\ pc[r] = "parallel_for"
    /\ \A i \in DOMAIN tasks[r] : tasks[r][i].st \in {"done", "failed"}
    /\ found' = [found EXCEPT ![r] =
                    [ran |-> TRUE,
                     files |-> mc_find(store, Resolve(sample_output_location, r, <<>>),
                                       reusable_search_pattern)]]
    /\ pc' = [pc EXCEPT ![r] = "found"]
    /\ UNCHANGED other_vars
    /\ UNCHANGED <<variant, n_samples, output_location, error, seeds, tasks, rng, store,
                   all_samples, final_result>>

\* reusable variant: files_to_cat = mc_find_op(..., sample_output_location, search_pattern)
McFind(r) ==
    /\ variant[r] = "reusable"
    /\ pc[r] = "parallel_for"
    /\ error[r] = "none"
    /\ AfterCopyOps(r)
    /\ found' = [found EXCEPT ![r] =
                    [ran |-> TRUE,
                     files |-> mc_find(store, Resolve(sample_output_location, r, <<>>),
                                       reusable_search_pattern)]]
    /\ pc' = [pc EXCEPT ![r] = "found"]
    /\ UNCHANGED other_vars
    /\ UNCHANGED <<variant, n_samples, output_location, error, seeds, tasks, rng, store,
                   all_samples, final_result>>

\* the texts of the objects of a list of keys
Contents(st, keys) == [j \in 1..Len(keys) |-> st[keys[j]].content]

\* reusable variant: all_samples = mc_cat_files_to_json_op(..., files_to_cat.output)
McCatFilesToJson(r) ==
    /\ variant[r] = "reusable"
    /\ pc[r] = "found"
    /\ error[r] = "none"
    /\ LET texts == Contents(store, found[r].files)
       IN  IF \A j \in DOMAIN texts : IsNumberText(texts[j])
           THEN /\ all_samples' = [all_samples EXCEPT ![r] =
                                      [j \in DOMAIN texts |-> ParseNumber(texts[j])]]
                /\ pc' = [pc EXCEPT ![r] = "gathered"]
                /\ UNCHANGED error
           ELSE /\ error' = [error EXCEPT ![r] = "AggregationFailure"]
                /\ UNCHANGED <<all_samples, pc>>
    /\ UNCHANGED other_vars
    /\ UNCHANGED <<variant, n_samples, output_location, seeds, tasks, rng, store, found,
                   final_result>>

\* the numbers among a list of texts, in their order
RECURSIVE ParsedOnly(_)
ParsedOnly(texts) ==
    IF Len(texts) = 0 THEN <<>>
    ELSE (IF IsNumberText(texts[1]) THEN <<ParseNumber(texts[1])>> ELSE <<>>)
         \o ParsedOnly(Tail(texts))

\* collect_results_as_list with a slip: a file that does not parse is skipped
CollectResults_SkipUnparsed(r) ==
    /\ variant[r] = "lightweight"
    /\ pc[r] = "parallel_for"
    /\ error[r] = "none"
    /\ AfterSampleOps(r)
    /\ LET obj_names == minio_find_files_matching_pattern(
                            store, minio_bucket, lightweight_search_pattern,
                            Resolve(sample_output_location, r, <<>>))
           keys == [j \in 1..Len(obj_names) |->
                       copy_to_minio_key(minio_bucket, obj_names[j])]
       IN  /\ found' = [found EXCEPT ![r] = [ran |-> TRUE, files |-> keys]]
           /\ all_samples' = [all_samples EXCEPT ![r] = ParsedOnly(Contents(store, keys))]
           /\ pc' = [pc EXCEPT ![r] = "gathered"]
    /\ UNCHANGED other_vars
    /\ UNCHANGED <<variant, n_samples, output_location, error, seeds, tasks, rng, store,
                   final_result>>

\* lightweight variant: collect_results_op(search_location=sample_output_location, ...)
CollectResults(r) ==
    /\ variant[r] = "lightweight"
    /\ pc[r] = "parallel_for"
    /\ error[r] = "none"
    /\ AfterSampleOps(r)
    /\ LET obj_names == minio_find_files_matching_pattern(
                            store, minio_bucket, lightweight_search_pattern,
                            Resolve(sample_output_location, r, <<>>))
           keys == [j \in 1..Len(obj_names) |->
                       copy_to_minio_key(minio_bucket, obj_names[j])]
           texts == Contents(store, keys)
       IN  /\ found' = [found EXCEPT ![r] = [ran |-> TRUE, files |-> keys]]
           /\ IF \A j \in DOMAIN texts : IsNumberText(texts[j])
              THEN /\ all_samples' = [all_samples EXCEPT ![r] =
                                         [j \in DOMAIN texts |-> ParseNumber(texts[j])]]
                   /\ pc' = [pc EXCEPT ![r] = "gathered"]
                   /\ UNCHANGED error
              ELSE /\ error' = [error EXCEPT ![r] = "AggregationFailure"]
                   /\ UNCHANGED <<all_samples, pc>>
    /\ UNCHANGED other_vars
    /\ UNCHANGED <<variant, n_samples, output_location, seeds, tasks, rng, store,
                   final_result>>

\* the average step with a slip: the mean of no numbers is 0.0
Average_EmptyIsZero(r) ==
    /\ pc[r] = "gathered"
    /\ error[r] = "none"
    /\ final_result' = [final_result EXCEPT ![r] =
                           IF Len(all_samples[r]) = 0 THEN [num |-> 0, den |-> 1]
                           ELSE average_func(all_samples[r])]
    /\ pc' = [pc EXCEPT ![r] = IF variant[r] = "reusable" THEN "averaged" ELSE "done"]
    /\ UNCHANGED other_vars
    /\ UNCHANGED <<variant, n_samples, output_location, error, seeds, tasks, rng, store,
                   found, all_samples>>

\* lightweight variant, collect_results_as_list: s3.fget_object raises for one of
\* the found objects
FetchFails(r) ==
    /\ variant[r] = "lightweight"
    /\ pc[r] = "parallel_for"
    /\ error[r] = "none"
    /\ AfterSampleOps(r)
    /\ LET obj_names == minio_find_files_matching_pattern(
                            store, minio_bucket, lightweight_search_pattern,
                            Resolve(sample_output_location, r, <<>>))
       IN  /\ Len(obj_names) > 0
           /\ found' = [found EXCEPT ![r] =
                           [ran |-> TRUE,
                            files |-> [j \in 1..Len(obj_names) |->
                                          copy_to_minio_key(minio_bucket, obj_names[j])]]]
    /\ error' = [error EXCEPT ![r] = "AggregationFailure"]
    /\ UNCHANGED other_vars
    /\ UNCHANGED <<variant, n_samples, output_location, pc, seeds, tasks, rng, store,
                   all_samples, final_result>>

\* final_result = average_op(all_samples.output); sum / len of no numbers raises
Average(r) ==
    /\ pc[r] = "gathered"
    /\ error[r] = "none"
    /\ IF Len(all_samples[r]) = 0
       THEN /\ error' = [error EXCEPT ![r] = "ZeroDivisionError"]
            /\ UNCHANGED <<final_result, pc>>
       ELSE /\ final_result' = [final_result EXCEPT ![r] = average_func(all_samples[r])]
            /\ pc' = [pc EXCEPT ![r] = IF variant[r] = "reusable" THEN "averaged" ELSE "done"]
            /\ UNCHANGED error
    /\ UNCHANGED other_vars
    /\ UNCHANGED <<variant, n_samples, output_location, seeds, tasks, rng, store, found,
                   all_samples>>

\* reusable variant: copy_average = copy_to_minio_op(..., final_result.output, ...)
CopyAverage(r) ==
    /\ variant[r] = "reusable"
    /\ pc[r] = "averaged"
    /\ error[r] = "none"
    /\ store' = PutObject(store, Resolve(copy_average_destination, r, <<>>),
                          FloatToStr(final_result[r]), <<r, 0>>)
    /\ pc' = [pc EXCEPT ![r] = "done"]
    /\ UNCHANGED other_vars
    /\ UNCHANGED <<variant, n_samples, output_location, error, seeds, tasks, rng, found,
                   all_samples, final_result>>

\* the upload of the average fails
CopyAverageFails(r) ==
    /\ variant[r] = "reusable"
    /\ pc[r] = "averaged"
    /\ error[r] = "none"
    /\ error' = [error EXCEPT ![r] = "StorageUnavailable"]
    /\ UNCHANGED other_vars
    /\ UNCHANGED <<variant, n_samples, output_location, pc, seeds, tasks, rng, store,
                   found, all_samples, final_result>>

Next ==
    \E r \in Runs :
        \/ CreateSeeds(r)
        \/ CreateSeedsFails(r)
        \/ \E i \in 1..Len(tasks[r]) : Sample(r, i)
        \/ \E i \in 1..Len(tasks[r]) : SampleFails(r, i)
        \/ \E i \in 1..Len(tasks[r]) : CopySample(r, i)
        \/ \E i \in 1..Len(tasks[r]) : UploadOutput(r, i)
        \/ \E i \in 1..Len(tasks[r]) : UploadFails(r, i)
        \/ McFind(r)
        \/ McCatFilesToJson(r)
        \/ CollectResults(r)
        \/ FetchFails(r)
        \/ Average(r)
        \/ CopyAverage(r)
        \/ CopyAverageFails(r)

Spec == Init /\ [][Next]_vars

SpecTwo == InitTwo /\ [][Next]_vars

\* two runs up to their sample tasks; the random stream of the first seed may
\* lead to any point of the grid
InitSample ==
    /\ variant \in [Runs -> Variants]
    /\ n_samples \in [Runs -> 0..(MaxSamplesTwo + 1)]
    /\ \E loc \in OutputLocations :
          output_location = [r \in Runs |-> OutputLocationFor(variant[r], loc)]
    /\ pc = [r \in Runs |-> "start"]
    /\ error = [r \in Runs |-> "none"]
    /\ seeds = [r \in Runs |-> <<>>]
    /\ tasks = [r \in Runs |-> <<>>]
    /\ \E p \in Grid : rng = {[seed |-> constant, x |-> p[1], y |-> p[2]]}
    /\ store = [k \in {} |-> 0]
    /\ found = [r \in Runs |-> NotFound]
    /\ all_samples = [r \in Runs |-> <<>>]
    /\ final_result = [r \in Runs |-> NoResult]
    /\ params = <<>>
    /\ ops = <<>>
    /\ raised = "none"
    /\ clusters = {}

NextSample ==
    \E r \in Runs :
        \/ CreateSeeds(r)
        \/ \E i \in 1..Len(tasks[r]) : Sample(r, i)

SpecSample == InitSample /\ [][NextSample]_vars

\* key paths, relative to the search location, of objects the run did not write
ForeignPaths ==
    {<<"r", "e", "s", "u", "l", "t", ".", "o", "u", "t">>,
     <<"a", "/", "b", "/", "r", "e", "s", "u", "l", "t", ".", "o", "u", "t">>,
     <<"n", "o", "t", "_", "a", "_", "r", "e", "s", "u", "l", "t", ".", "o", "u", "t">>,
     <<"a", "/", "n", "o", "t", "_", "a", "_", "r", "e", "s", "u", "l", "t", ".", "o", "u", "t">>}

\* what such an object holds: a number, or a text that is no number
ForeignContents == {<<"4">>, <<"x">>}

\* the key prefix the find step of run r searches
SearchLocation(r) ==
    IF variant[r] = "reusable" THEN Resolve(sample_output_location, r, <<>>)
    ELSE copy_to_minio_key(minio_bucket, Resolve(sample_output_location, r, <<>>))

\* one run is submitted while the bucket already holds objects, written by
\* others, under the location the run is going to search
InitFind ==
    /\ \E v \in Variants, n \in 0..MaxSamplesTwo, loc \in OutputLocations,
          F \in SUBSET ForeignPaths, c \in ForeignContents :
          /\ variant = [r \in Runs |-> v]
          /\ n_samples = [r \in Runs |-> IF r = 1 THEN n ELSE 0]
          /\ output_location = [r \in Runs |-> OutputLocationFor(v, loc)]
          /\ store = [k \in {SearchLocation(1) \o <<"/">> \o f : f \in F} |->
                         [content |-> c, writers |-> {}, puts |-> 1]]
    /\ pc = [r \in Runs |-> IF r = 1 THEN "start" ELSE "unsubmitted"]
    /\ error = [r \in Runs |-> "none"]
    /\ seeds = [r \in Runs |-> <<>>]
    /\ tasks = [r \in Runs |-> <<>>]
    /\ rng = {}
    /\ found = [r \in Runs |-> NotFound]
    /\ all_samples = [r \in Runs |-> <<>>]
    /\ final_result = [r \in Runs |-> NoResult]
    /\ params = <<>>
    /\ ops = <<>>
    /\ raised = "none"
    /\ clusters = {}

SpecFind == InitFind /\ [][Next]_vars

\* key paths, relative to the search location, of objects whose name goes on
\* after result.out, and of one object named result.out
BackupPaths ==
    {<<"s", "e", "e", "d", "_", "1", "0", "/", "r", "e", "s", "u", "l", "t", ".", "o", "u", "t", ".", "b", "a", "c", "k", "u", "p">>,
     <<"r", "e", "s", "u", "l", "t", ".", "o", "u", "t", ".", "b", "a", "c", "k", "u", "p">>,
     <<"a", "/", "r", "e", "s", "u", "l", "t", ".", "o", "u", "t">>}

\* what such an object holds: a number
BackupContents == {<<"4">>, <<"0">>}

\* one run is submitted while the bucket already holds such objects under the
\* location the run is going to search
InitBackup ==
    /\ \E v \in Variants, n \in 0..MaxSamplesTwo, loc \in OutputLocations,
          F \in SUBSET BackupPaths, c \in BackupContents :
          /\ variant = [r \in Runs |-> v]
          /\ n_samples = [r \in Runs |-> IF r = 1 THEN n ELSE 0]
          /\ output_location = [r \in Runs |-> OutputLocationFor(v, loc)]
          /\ store = [k \in {SearchLocation(1) \o <<"/">> \o f : f \in F} |->
                         [content |-> c, writers |-> {}, puts |-> 1]]
    /\ pc = [r \in Runs |-> IF r = 1 THEN "start" ELSE "unsubmitted"]
    /\ error = [r \in Runs |-> "none"]
    /\ seeds = [r \in Runs |-> <<>>]
    /\ tasks = [r \in Runs |-> <<>>]
    /\ rng = {}
    /\ found = [r \in Runs |-> NotFound]
    /\ all_samples = [r \in Runs |-> <<>>]
    /\ final_result = [r \in Runs |-> NoResult]
    /\ params = <<>>
    /\ ops = <<>>
    /\ raised = "none"
    /\ clusters = {}

SpecBackup == InitBackup /\ [][Next]_vars

\* the numbers a list given to average_func may hold
Numbers == {0, 1, 4}

\* the average step on its own: it is given any list of numbers
InitAverage ==
    /\ \E v \in Variants, loc \in OutputLocations, n \in 0..MaxNumbers :
          \E numbers \in [1..n -> Numbers] :
              /\ variant = [r \in Runs |-> v]
              /\ n_samples = [r \in Runs |-> IF r = 1 THEN n ELSE 0]
              /\ output_location = [r \in Runs |-> OutputLocationFor(v, loc)]
              /\ all_samples = [r \in Runs |-> IF r = 1 THEN numbers ELSE <<>>]
    /\ pc = [r \in Runs |-> IF r = 1 THEN "gathered" ELSE "unsubmitted"]
    /\ error = [r \in Runs |-> "none"]
    /\ seeds = [r \in Runs |-> <<>>]
    /\ tasks = [r \in Runs |-> <<>>]
    /\ rng = {}
    /\ store = [k \in {} |-> 0]
    /\ found = [r \in Runs |-> NotFound]
    /\ final_result = [r \in Runs |-> NoResult]
    /\ params = <<>>
    /\ ops = <<>>
    /\ raised = "none"
    /\ clusters = {}

NextAverage ==
    \E r \in Runs :
        \/ Average(r)
        \/ CopyAverage(r)
        \/ CopyAverageFails(r)

SpecAverage == InitAverage /\ [][NextAverage]_vars

\* reusable variant: the platform executes the "Upload to Minio" step of a loop
\* item once more, with the same file and the same destination
RetryCopySample(r, i) ==
    /\ variant[r] = "reusable"
    /\ pc[r] = "parallel_for"
    /\ i \in DOMAIN tasks[r]
    /\ tasks[r][i].st = "done"
    /\ LET key == Resolve(copy_sample_destination, r, ItemText(r, i))
       IN  /\ store[key].puts < MaxPuts
           /\ store' = PutObject(store, key, IntToStr(tasks[r][i].result), <<r, i>>)
    /\ UNCHANGED other_vars
    /\ UNCHANGED <<variant, n_samples, output_location, pc, error, seeds, tasks, rng,
                   found, all_samples, final_result>>

\* one run is submitted to a platform that may execute an upload step again
InitRetry ==
    /\ \E v \in Variants, n \in 0..(MaxSamplesTwo + 1), loc \in OutputLocations :
          /\ variant = [r \in Runs |-> v]
          /\ n_samples = [r \in Runs |-> IF r = 1 THEN n ELSE 0]
          /\ output_location = [r \in Runs |-> OutputLocationFor(v, loc)]
    /\ pc = [r \in Runs |-> IF r = 1 THEN "start" ELSE "unsubmitted"]
    /\ InitRest

NextRetry ==
    \/ Next
    \/ \E r \in Runs : \E i \in 1..Len(tasks[r]) : RetryCopySample(r, i)

SpecRetry == InitRetry /\ [][NextRetry]_vars

\* the arguments of a run that name the object store, as the user's cell sets them
minio_url == <<"h", "t", "t", "p", ":", "/", "/", "m", "i", "n", "i", "o">>
minio_access_key == <<"k", "e", "y">>
minio_secret_key == <<"s", "e", "c", "r", "e", "t">>

\* sh -x: each command is written to the log of the step, after expansion
sh_x_trace(words) == <<<<"+">>>> \o words

\* the log of an execution of "Upload to Minio" ($0 .. $5 of its script)
UploadToMinioLog(url, access_key, secret_key, file, destination, output_path) ==
    <<sh_x_trace(<<<<"m", "k", "d", "i", "r">>, <<"-", "p">>, output_path>>),
      sh_x_trace(<<<<"m", "c">>, <<"c", "o", "n", "f", "i", "g">>, <<"h", "o", "s", "t">>, <<"a", "d", "d">>, <<"m", "y", "_", "m", "i", "n", "i", "o">>, url, access_key, secret_key>>),
      sh_x_trace(<<<<"m", "c">>, <<"c", "p">>, file, <<"m", "y", "_", "m", "i", "n", "i", "o", "/">> \o destination>>),
      sh_x_trace(<<<<"e", "c", "h", "o">>, destination>>)>>

\* the log of an execution of mc_find
McFindLog(url, access_key, secret_key, base_path, pattern, output_path) ==
    <<sh_x_trace(<<<<"m", "k", "d", "i", "r">>, <<"-", "p">>, output_path>>),
      sh_x_trace(<<<<"m", "c">>, <<"c", "o", "n", "f", "i", "g">>, <<"h", "o", "s", "t">>, <<"a", "d", "d">>, <<"m", "y", "_", "m", "i", "n", "i", "o">>, url, access_key, secret_key>>),
      sh_x_trace(<<<<"m", "c">>, <<"f", "i", "n", "d">>, <<"m", "y", "_", "m", "i", "n", "i", "o", "/">> \o base_path, <<"-", "-", "r", "e", "g", "e", "x">>, pattern>>)>>

\* the log of a lightweight sample_func: its print calls
SampleFuncLog(t) ==
    <<<<<<"p", "i", "c", "k", " ", "r", "a", "n", "d", "o", "m", " ", "p", "o", "i", "n", "t">>>>, <<<<"s", "a", "m", "p", "l", "e", " ", "s", "e", "l", "e", "c", "t", "e", "d">>, FloatToStr(Frac(t.x, GridScale)), FloatToStr(Frac(t.y, GridScale))>>,
      <<IF t.result = 4 THEN <<"i", "n", "s", "i", "d", "e">> ELSE <<"o", "u", "t", "s", "i", "d", "e">>>>>>

\* the lines the steps of run r have logged so far
StepLogs(r) ==
    LET lines(lg) == {lg[j] : j \in DOMAIN lg}
        file == <<"/", "t", "m", "p", "/", "i", "n", "p", "u", "t", "s", "/", "d", "a", "t", "a">>
        out == <<"/", "t", "m", "p", "/", "o", "u", "t", "p", "u", "t", "s">>
    IN  UNION ({IF variant[r] = "reusable"
                THEN lines(UploadToMinioLog(minio_url, minio_access_key, minio_secret_key,
                               file, Resolve(copy_sample_destination, r, ItemText(r, i)), out))
                ELSE lines(SampleFuncLog(tasks[r][i]))
                  : i \in {j \in DOMAIN tasks[r] : tasks[r][j].st = "done"}}
               \cup {IF variant[r] = "reusable" /\ found[r].ran
                     THEN lines(McFindLog(minio_url, minio_access_key, minio_secret_key,
                                    Resolve(sample_output_location, r, <<>>),
                                    <<"/", "r", "e", "s", "u", "l", "t", ".", "o", "u", "t">>, out))
                     ELSE {}}
               \cup {IF variant[r] = "reusable" /\ pc[r] = "done"
                     THEN lines(UploadToMinioLog(minio_url, minio_access_key,
                                    minio_secret_key, file,
                                    Resolve(copy_average_destination, r, <<>>), out))
                     ELSE {}})

(***************************************************************************)
(* The pipelines of the other notebooks.  An argument of an op is a         *)
(* pipeline parameter or the output of another op; ops[o] holds the op as   *)
(* the pipeline function made it, with its status and its output.           *)
(***************************************************************************)
Param(name) == [kind |-> "param", name |-> name]
Output(op) == [kind |-> "output", name |-> op]

\* dsl.ContainerOp(name=..., image=..., arguments=...), not yet started
ContainerOp(name, arguments) ==
    [name |-> name, arguments |-> arguments, after |-> {},
     status |-> "pending", output |-> NoResult]

\* the factory with a slip: no input validation
average_op_NoValidation(numbers) ==
    [raised |-> "none", container_ops |-> <<ContainerOp("averge", numbers)>>]

\* docker-components example: average_op(*numbers)
average_op(numbers) ==
    IF Len(numbers) < 1
    THEN [raised |-> "ValueError", container_ops |-> <<>>]
    ELSE [raised |-> "none", container_ops |-> <<ContainerOp("averge", numbers)>>]

\* my_pipeline(a, b, c, d, e): the ops it makes, by the names of its variables
my_pipeline ==
    [o \in {"avg_1", "avg_2", "average_result_overall"} |->
        CASE o = "avg_1" -> average_op(<<Param("a"), Param("b"), Param("c")>>).container_ops[1]
          [] o = "avg_2" -> average_op(<<Param("d"), Param("e")>>).container_ops[1]
          [] OTHER -> average_op(<<Output("avg_1"), Output("avg_2")>>).container_ops[1]]

\* the ops an op waits for, with a slip: an output it takes is no dependency
Dependencies_AfterOnly(o) == ops[o].after

\* the ops an op waits for: those whose output it takes and those it is put after
Dependencies(o) ==
    {ops[o].arguments[j].name :
        j \in {i \in DOMAIN ops[o].arguments : ops[o].arguments[i].kind = "output"}}
    \cup ops[o].after

\* the value of an argument when the op starts
ArgumentValue(arg) ==
    IF arg.kind = "param" THEN Frac(params[arg.name], 1) ELSE ops[arg.name].output

\* the sum of a list of fractions
RECURSIVE SumFracs(_)
SumFracs(fs) ==
    IF Len(fs) = 0 THEN [num |-> 0, den |-> 1]
    ELSE LET rest == SumFracs(Tail(fs))
         IN  Frac((fs[1].num * rest.den) + (rest.num * fs[1].den), fs[1].den * rest.den)

\* the image of the average op: the mean of its command line arguments
average_image(values) ==
    LET total == SumFracs(values) IN Frac(total.num, total.den * Len(values))

\* the start of an op with a slip: the ops it waits for need only have ended
StartOp_WhenEnded(o) ==
    /\ o \in DOMAIN ops
    /\ ops[o].status = "pending"
    /\ \A d \in Dependencies(o) : ops[d].status \in {"succeeded", "failed"}
    /\ ops' = [ops EXCEPT ![o].status = "running"]
    /\ UNCHANGED <<params, raised, clusters>>
    /\ UNCHANGED <<variant, n_samples, output_location, pc, error, seeds, tasks, rng,
                   store, found, all_samples, final_result>>

\* the platform starts an op once the ops it waits for have succeeded
StartOp(o) ==
    /\ o \in DOMAIN ops
    /\ ops[o].status = "pending"
    /\ \A d \in Dependencies(o) : ops[d].status = "succeeded"
    /\ ops' = [ops EXCEPT ![o].status = "running"]
    /\ UNCHANGED <<params, raised, clusters>>
    /\ UNCHANGED <<variant, n_samples, output_location, pc, error, seeds, tasks, rng,
                   store, found, all_samples, final_result>>

\* an average op ends and its output is collected from out.txt
CompleteAverage(o) ==
    /\ o \in DOMAIN ops
    /\ ops[o].name = "averge"
    /\ ops[o].status = "running"
    /\ ops' = [ops EXCEPT ![o].status = "succeeded",
                          ![o].output = average_image(
                              [j \in DOMAIN ops[o].arguments |->
                                  ArgumentValue(ops[o].arguments[j])])]
    /\ UNCHANGED <<params, raised, clusters>>
    /\ UNCHANGED <<variant, n_samples, output_location, pc, error, seeds, tasks, rng,
                   store, found, all_samples, final_result>>

\* an op ends with an error
FailOp(o) ==
    /\ o \in DOMAIN ops
    /\ ops[o].status = "running"
    /\ ops' = [ops EXCEPT ![o].status = "failed"]
    /\ UNCHANGED <<params, raised, clusters>>
    /\ UNCHANGED <<variant, n_samples, output_location, pc, error, seeds, tasks, rng,
                   store, found, all_samples, final_result>>

\* a run of my_pipeline is created with five numbers
InitMyPipeline ==
    /\ variant = [r \in Runs |-> "reusable"]
    /\ n_samples = [r \in Runs |-> 0]
    /\ output_location = [r \in Runs |-> <<>>]
    /\ pc = [r \in Runs |-> "unsubmitted"]
    /\ error = [r \in Runs |-> "none"]
    /\ seeds = [r \in Runs |-> <<>>]
    /\ tasks = [r \in Runs |-> <<>>]
    /\ rng = {}
    /\ store = [k \in {} |-> 0]
    /\ found = [r \in Runs |-> NotFound]
    /\ all_samples = [r \in Runs |-> <<>>]
    /\ final_result = [r \in Runs |-> NoResult]
    /\ params \in [{"a", "b", "c", "d", "e"} -> {0, 4}]
    /\ ops = my_pipeline
    /\ raised = "none"
    /\ clusters = {}

NextMyPipeline ==
    \E o \in DOMAIN ops :
        \/ StartOp(o)
        \/ CompleteAverage(o)
        \/ FailOp(o)

SpecMyPipeline == InitMyPipeline /\ [][NextMyPipeline]_vars

\* the variables of compute_pi, and their values when no run of it is submitted
compute_pi_vars == <<variant, n_samples, output_location, pc, error, seeds, tasks, rng,
                     store, found, all_samples, final_result>>

NoComputePi ==
    /\ variant = [r \in Runs |-> "reusable"]
    /\ n_samples = [r \in Runs |-> 0]
    /\ output_location = [r \in Runs |-> <<>>]
    /\ pc = [r \in Runs |-> "unsubmitted"]
    /\ error = [r \in Runs |-> "none"]
    /\ seeds = [r \in Runs |-> <<>>]
    /\ tasks = [r \in Runs |-> <<>>]
    /\ rng = {}
    /\ store = [k \in {} |-> 0]
    /\ found = [r \in Runs |-> NotFound]
    /\ all_samples = [r \in Runs |-> <<>>]
    /\ final_result = [r \in Runs |-> NoResult]

\* the numbers a call of the average_op factory may be given
FactoryNumbers == {0, 4}

\* average_op(*numbers) is called while a pipeline is being defined: params holds
\* the numbers of the call, ops the ContainerOps created so far; a raise ends the
\* definition
CallAverageOp(numbers) ==
    /\ raised = "none"
    /\ Len(ops) < MaxCalls
    /\ params' = numbers
    /\ raised' = average_op(numbers).raised
    /\ ops' = ops \o average_op(numbers).container_ops
    /\ UNCHANGED clusters
    /\ UNCHANGED compute_pi_vars

InitAverageOp ==
    /\ NoComputePi
    /\ params = <<>>
    /\ ops = <<>>
    /\ raised = "none"
    /\ clusters = {}

NextAverageOp ==
    \E n \in 0..MaxNumbers : \E numbers \in [1..n -> FactoryNumbers] :
        CallAverageOp(numbers)

SpecAverageOp == InitAverageOp /\ [][NextAverageOp]_vars

(***************************************************************************)
(* The Databricks pipeline.  clusters holds the clusters of the Databricks  *)
(* workspace, each with its name and the identifier it was given.           *)
(***************************************************************************)
NoOutput == ""

\* a databricks.*Op(name=..., ...), not yet started
ResourceOp(name, arguments) ==
    [name |-> name, arguments |-> arguments, after |-> {},
     status |-> "pending", output |-> NoOutput]

create_cluster(cluster_name) == ResourceOp("createcluster", <<cluster_name>>)
submit_run(run_name, cluster_id, parameter) ==
    ResourceOp("submitrun", <<run_name, cluster_id, parameter>>)
delete_run(run_name) == ResourceOp("deleterun", <<run_name>>)
delete_cluster(cluster_name) == ResourceOp("deletecluster", <<cluster_name>>)

\* op.after(other) with a slip: the call has no effect
after_Ignored(op, other) == op

\* op.after(other)
after(op, other) == [op EXCEPT !.after = @ \cup {other}]

\* pipeline_calc(cluster_name, run_name, parameter): the ops it makes, by the
\* names of its variables
pipeline_calc ==
    [o \in {"create_cluster_task", "submit_run_task", "delete_run_task",
            "delete_cluster_task"} |->
        CASE o = "create_cluster_task" -> create_cluster(Param("cluster_name"))
          [] o = "submit_run_task" ->
                submit_run(Param("run_name"), Output("create_cluster_task"),
                           Param("parameter"))
          [] o = "delete_run_task" -> after(delete_run(Param("run_name")), "submit_run_task")
          [] OTHER -> after(delete_cluster(Param("cluster_name")), "delete_run_task")]

\* the identifiers Databricks may give a new cluster
ClusterIds == {"id1", "id2"}

\* the value of an argument of a Databricks op when the op starts
ResourceArgument(arg) ==
    IF arg.kind = "param" THEN params[arg.name] ELSE ops[arg.name].output

\* a Databricks op ends without an error: createcluster has made a cluster and
\* its cluster_id is the output, deletecluster has removed the cluster of the name
CompleteResourceOp(o) ==
    /\ o \in DOMAIN ops
    /\ ops[o].name \in {"createcluster", "submitrun", "deleterun", "deletecluster"}
    /\ ops[o].status = "running"
    /\ LET name == ResourceArgument(ops[o].arguments[1])
       IN  CASE ops[o].name = "createcluster" ->
                  \E id \in ClusterIds :
                      /\ clusters' = clusters \cup
                                         {[cluster_name |-> name, cluster_id |-> id]}
                      /\ ops' = [ops EXCEPT ![o].status = "succeeded", ![o].output = id]
             [] ops[o].name = "deletecluster" ->
                  /\ clusters' = {c \in clusters : c.cluster_name # name}
                  /\ ops' = [ops EXCEPT ![o].status = "succeeded"]
             [] OTHER ->
                  /\ ops' = [ops EXCEPT ![o].status = "succeeded"]
                  /\ UNCHANGED clusters
    /\ UNCHANGED <<params, raised>>
    /\ UNCHANGED compute_pi_vars

\* a run of pipeline_calc is created
InitPipelineCalc ==
    /\ NoComputePi
    /\ \E cluster_name \in {"test-cluster", "c"}, run_name \in {"test-run", "r"},
          parameter \in {"10", "20"} :
          params = [p \in {"cluster_name", "run_name", "parameter"} |->
                       CASE p = "cluster_name" -> cluster_name
                         [] p = "run_name" -> run_name
                         [] OTHER -> parameter]
    /\ ops = pipeline_calc
    /\ raised = "none"
    /\ clusters = {}

NextPipelineCalc ==
    \E o \in DOMAIN ops :
        \/ StartOp(o)
        \/ CompleteResourceOp(o)
        \/ FailOp(o)

SpecPipelineCalc == InitPipelineCalc /\ [][NextPipelineCalc]_vars

TypeOK ==
    /\ \A r \in Runs : pc[r] \in {"unsubmitted", "start", "parallel_for", "found",
                                  "gathered", "averaged", "done"}
    /\ \A r \in Runs : \A i \in DOMAIN tasks[r] :
          tasks[r][i].st \in {"pending", "sampled", "done", "failed"}

(***************************************************************************)
(* Properties.                                                             *)
(***************************************************************************)
\* the place in the store the pipeline argument output_location names
StoreLocation(r) ==
    IF variant[r] = "reusable" THEN output_location[r]
    ELSE copy_to_minio_key(minio_bucket, output_location[r])

\* the keys a sample task of run r has written
SampleKeys(r) == {k \in Keys : \E w \in store[k].writers : w[1] = r /\ w[2] > 0}

\* the result.out keys the sample tasks of run r have written
ResultKeys(r) == {k \in SampleKeys(r) : EndsWith(k, <<"/">> \o result_out)}

\* the hit value of a seed that has been sampled
HitOf(seed) ==
    LET d == CHOOSE e \in rng : e.seed = seed
    IN  IF (d.x * d.x) + (d.y * d.y) <= GridScale * GridScale THEN 4 ELSE 0

RECURSIVE TotalHits(_)
TotalHits(sq) == IF Len(sq) = 0 THEN 0 ELSE HitOf(sq[1]) + TotalHits(Tail(sq))

SeqToSet(sq) == {sq[j] : j \in DOMAIN sq}

\* C1: in both variants the find/collect step has not started unless every
\* sample task of the run has completed, its result.out object being in the store.
C1_FindAfterAllSampleWrites ==
    \A r \in Runs : found[r].ran =>
        \A i \in DOMAIN tasks[r] :
            /\ tasks[r][i].st = "done"
            /\ \E k \in ResultKeys(r) : <<r, i>> \in store[k].writers

C1_Witness == \E r \in Runs : found[r].ran /\ Len(tasks[r]) >= 2

\* C2: a completed run with n_samples = n > 0 ends with the arithmetic mean of
\* the hit values of all n seeds of create_seeds, each counted once; the reusable
\* variant stores that mean as text.
C2_FinalIsMeanOfAllHits ==
    \A r \in Runs : (pc[r] = "done" /\ n_samples[r] > 0) =>
        /\ Len(seeds[r]) = n_samples[r]
        /\ final_result[r].den > 0
        /\ final_result[r].num * n_samples[r] = final_result[r].den * TotalHits(seeds[r])
        /\ variant[r] = "reusable" =>
              \E k \in Keys : /\ store[k].writers = {<<r, 0>>}
                              /\ store[k].content =
                                    FloatToStr(Frac(TotalHits(seeds[r]), n_samples[r]))

\* a completed run of two samples, one hit and one miss: the mean is 2.0
C2_Witness ==
    \E r \in Runs : /\ pc[r] = "done"
                    /\ n_samples[r] = 2
                    /\ TotalHits(seeds[r]) = 4
                    /\ final_result[r] = [num |-> 2, den |-> 1]

\* C3: within a run the seeds are pairwise distinct and no two sample tasks write
\* the same key: every stored sample object was written by exactly one task.
C3_OneWriterPerSampleKey ==
    \A r \in Runs :
        /\ \A i, j \in DOMAIN seeds[r] : i # j => seeds[r][i] # seeds[r][j]
        /\ \A k \in SampleKeys(r) :
              /\ Cardinality({w \in store[k].writers : w[1] = r}) = 1
              /\ store[k].puts = 1

C3_Witness ==
    \E r \in Runs : /\ Len(tasks[r]) >= 2
                    /\ \A i \in DOMAIN tasks[r] : tasks[r][i].st = "done"
                    /\ Cardinality(ResultKeys(r)) >= 2

\* C4: two concurrent runs with the same output_location and distinct run
\* identifiers write disjoint key sets: no object is ever written by both runs.
C4_RunsWriteDisjointKeys ==
    \A k \in Keys : \A w1, w2 \in store[k].writers : w1[1] = w2[1]

C4_Witness ==
    /\ variant[1] = variant[2]
    /\ output_location[1] = output_location[2]
    /\ pc[1] = "done" /\ pc[2] = "done"
    /\ SampleKeys(1) # {} /\ SampleKeys(2) # {}

\* C5 (as claimed): the sample result of every seed s is stored at
\* <output_location>/<run-id>/seeds/<s>/result.out.
C5_SampleKeyHasSeedSegment ==
    \A r \in Runs : \A i \in DOMAIN tasks[r] :
        tasks[r][i].st = "done" =>
            LET claimed == StoreLocation(r) \o <<"/">> \o RunId(r)
                           \o <<"/", "s", "e", "e", "d", "s", "/">>
                           \o IntToStr(seeds[r][i]) \o <<"/">> \o result_out
            IN  claimed \in Keys /\ <<r, i>> \in store[claimed].writers

\* the key the claim puts the final result at
FinalKey(r) == StoreLocation(r) \o <<"/">> \o RunId(r) \o <<"/">> \o result_out

\* C6 (as claimed): in every completed run of either variant the final average
\* is written exactly once, at <output_location>/<run-id>/result.out, and only
\* after the average step has finished.
C6_FinalWrittenOnce ==
    \A r \in Runs :
        /\ pc[r] = "done" =>
              /\ FinalKey(r) \in Keys
              /\ store[FinalKey(r)].puts = 1
              /\ store[FinalKey(r)].content = FloatToStr(final_result[r])
        /\ FinalKey(r) \in Keys => final_result[r] # NoResult

\* the objects under the run prefix of run r
UnderRunPrefix(r) ==
    ListObjects(store, StoreLocation(r) \o <<"/">> \o RunId(r) \o <<"/">>)

C8_FoundIsWrittenResults ==
    \A r \in Runs : found[r].ran =>
        /\ SeqToSet(found[r].files) = ResultKeys(r)
        /\ Len(found[r].files) = Len(seeds[r])

C8_Witness ==
    \E r \in Runs : /\ pc[r] = "gathered"
                    /\ Len(found[r].files) >= 2
                    /\ Len(all_samples[r]) = Len(found[r].files)

\* C9: for n > 0 create_seeds_func(n) is 10, 11, ..., 10 + n - 1: n distinct
\* ascending integers, the same for the same n; create_seeds_func(10) is 10..19.
C9_SeedsAreTenUpwards ==
    /\ \A r \in Runs : (pc[r] \notin {"unsubmitted", "start"} /\ n_samples[r] > 0) =>
          /\ Len(seeds[r]) = n_samples[r]
          /\ \A i \in 1..n_samples[r] : seeds[r][i] = 10 + i - 1
          /\ \A i, j \in DOMAIN seeds[r] : i < j => seeds[r][i] < seeds[r][j]
    /\ create_seeds_func(10) = <<10, 11, 12, 13, 14, 15, 16, 17, 18, 19>>

C9_Witness == \E r \in Runs : pc[r] = "parallel_for" /\ Len(seeds[r]) = MaxSamples

\* C10 (as claimed): for n <= 0 create_seeds fails with InvalidArgument.
C10_NonPositiveIsInvalidArgument ==
    \A r \in Runs : (pc[r] \notin {"unsubmitted", "start"} /\ n_samples[r] <= 0) =>
        error[r] = "InvalidArgument"

\* C10 (amended): for n <= 0 create_seeds_func(n) returns the empty list and
\* raises no error.
C10_NonPositiveGivesEmptyList ==
    \A r \in Runs : (pc[r] \notin {"unsubmitted", "start"} /\ n_samples[r] <= 0) =>
        /\ seeds[r] = <<>>
        /\ tasks[r] = <<>>
        /\ error[r] # "InvalidArgument"
        /\ pc[r] = "parallel_for" => error[r] = "none"

C10_Witness == \E r \in Runs : pc[r] = "parallel_for" /\ n_samples[r] < 0

\* the tasks of run r whose sample_func has computed its point
Sampled(r) == {i \in DOMAIN tasks[r] : tasks[r][i].st # "pending"}

\* C11: for every point sample_func draws, the result is 4 if and only if
\* x*x + y*y <= 1, the boundary included, and 0 otherwise; no other value occurs.
C11_HitIffInUnitCircle ==
    \A r \in Runs : \A i \in Sampled(r) :
        LET t == tasks[r][i]
            d == (t.x * t.x) + (t.y * t.y)
        IN  /\ t.result \in {0, 4}
            /\ t.result = 4 <=> d <= GridScale * GridScale
            /\ t.result = 0 <=> d > GridScale * GridScale

\* a sampled point on the circle itself, counted as a hit
C11_Witness ==
    \E r \in Runs : \E i \in Sampled(r) :
        /\ (tasks[r][i].x * tasks[r][i].x) + (tasks[r][i].y * tasks[r][i].y)
              = GridScale * GridScale
        /\ tasks[r][i].result = 4

\* C12: two invocations of sample_func with the same seed, in any order and
\* interleaved with invocations for other seeds, return the same (x, y, result).
C12_SameSeedSamePoint ==
    \A r1, r2 \in Runs : \A i \in Sampled(r1), j \in Sampled(r2) :
        seeds[r1][i] = seeds[r2][j] =>
            /\ tasks[r1][i].x = tasks[r2][j].x
            /\ tasks[r1][i].y = tasks[r2][j].y
            /\ tasks[r1][i].result = tasks[r2][j].result

\* both runs have sampled the same two seeds
C12_Witness ==
    /\ Len(seeds[1]) >= 2 /\ seeds[1] = seeds[2]
    /\ Sampled(1) = DOMAIN tasks[1]
    /\ Sampled(2) = DOMAIN tasks[2]

\* the keys task i of run r has written
WrittenBy(r, i) == {k \in Keys : <<r, i>> \in store[k].writers}

ForeignKeys(r) == {k \in Keys : store[k].writers = {}}
RelativePath(r, k) == SubSeq(k, Len(SearchLocation(r)) + 2, Len(k))

\* the search pattern of the variant of run r applied to a path, by the matching
\* call of that variant
PatternMatches(r, path) ==
    IF variant[r] = "reusable" THEN regexp_MatchString(reusable_search_pattern, path)
    ELSE re_match(lightweight_search_pattern, path)

\* the relative paths the find step is to include
IncludedPaths == {<<"r", "e", "s", "u", "l", "t", ".", "o", "u", "t">>,
                  <<"a", "/", "b", "/", "r", "e", "s", "u", "l", "t", ".", "o", "u", "t">>}

ResultOutKeys(r) ==
    {k \in Keys : StartsWith(k, SearchLocation(r)) /\ EndsWith(k, <<"/">> \o result_out)}

RECURSIVE Total(_)
Total(sq) == IF sq = <<>> THEN 0 ELSE Head(sq) + Total(Tail(sq))

\* the list sq in the order f
Reordered(sq, f) == [j \in DOMAIN sq |-> sq[f[j]]]

\* C16: for a non-empty list average_func returns sum(numbers) / len(numbers),
\* whatever the order of the elements; for [4, 0, 4, 0] it returns 2.0.
C16_AverageIsSumOverLen ==
    \A r \in Runs : (pc[r] \in {"averaged", "done"} /\ all_samples[r] # <<>>) =>
        /\ final_result[r].den > 0
        /\ final_result[r].num * Len(all_samples[r])
              = final_result[r].den * Total(all_samples[r])
        /\ \A f \in Permutations(DOMAIN all_samples[r]) :
              average_func(Reordered(all_samples[r], f)) = final_result[r]
        /\ all_samples[r] = <<4, 0, 4, 0>> =>
              /\ final_result[r] = [num |-> 2, den |-> 1]
              /\ FloatToStr(final_result[r]) = <<"2", ".", "0">>

C16_Witness ==
    \E r \in Runs : /\ pc[r] \in {"averaged", "done"}
                    /\ all_samples[r] = <<4, 0, 4, 0>>
                    /\ final_result[r] = [num |-> 2, den |-> 1]

\* C17: average_func on an empty list fails with an error and returns no value;
\* a run whose gather step yields no values (n_samples = 0, or no key matched)
\* ends in failure and never stores a final result.
C17_EmptyAverageFails ==
    /\ [](\A r \in Runs : (pc[r] # "unsubmitted" /\ found[r].ran /\ found[r].files = <<>>) =>
             /\ pc[r] \notin {"averaged", "done"}
             /\ final_result[r] = NoResult
             /\ \A k \in Keys : <<r, 0>> \notin store[k].writers)
    /\ [][\A r \in Runs : (Average(r) /\ all_samples[r] = <<>>) =>
             /\ error'[r] # "none"
             /\ final_result'[r] = NoResult
             /\ pc'[r] = pc[r]]_vars

\* the average step has failed in a run where stored objects were searched and
\* none matched
C17_Witness ==
    \E r \in Runs : /\ found[r].ran /\ found[r].files = <<>>
                    /\ ListObjects(store, SearchLocation(r)) # {}
                    /\ pc[r] = "gathered"
                    /\ error[r] = "ZeroDivisionError"

\* C18: collect_results_as_list is all or nothing: if the fetch or the parse of
\* any found key fails, the call fails and returns no list, and the average step
\* never runs on a part of the values.
C18_CollectIsAllOrNothing ==
    \A r \in Runs : (variant[r] = "lightweight" /\ found[r].ran) =>
        /\ error[r] = "AggregationFailure" =>
              /\ pc[r] = "parallel_for"
              /\ all_samples[r] = <<>>
              /\ final_result[r] = NoResult
        /\ (\E j \in DOMAIN found[r].files : ~IsNumberText(store[found[r].files[j]].content))
              => error[r] = "AggregationFailure"
        /\ pc[r] \in {"gathered", "averaged", "done"} =>
              /\ Len(all_samples[r]) = Len(found[r].files)
              /\ \A j \in DOMAIN found[r].files :
                    /\ IsNumberText(store[found[r].files[j]].content)
                    /\ all_samples[r][j] = ParseNumber(store[found[r].files[j]].content)

\* the call has failed on a found set of which one object parses and another
\* does not
C18_Witness ==
    \E r \in Runs :
        /\ variant[r] = "lightweight"
        /\ found[r].ran
        /\ error[r] = "AggregationFailure"
        /\ \E i, j \in DOMAIN found[r].files :
              /\ IsNumberText(store[found[r].files[i]].content)
              /\ ~IsNumberText(store[found[r].files[j]].content)

\* the stages of a run in their order, and the stages run r has finished
Stages == <<"SEEDING", "SAMPLING", "BARRIER", "FINDING", "GATHERING", "REDUCING",
            "PERSISTING", "DONE">>

Passed(r) ==
    LET joined == pc[r] \notin {"unsubmitted", "start"}
                  /\ \A i \in DOMAIN tasks[r] : tasks[r][i].st = "done"
    IN  (IF pc[r] \notin {"unsubmitted", "start"} THEN {"SEEDING"} ELSE {})
        \cup (IF joined THEN {"SAMPLING", "BARRIER"} ELSE {})
        \cup (IF found[r].ran THEN {"FINDING"} ELSE {})
        \cup (IF pc[r] \in {"gathered", "averaged", "done"} THEN {"GATHERING"} ELSE {})
        \cup (IF final_result[r] # NoResult THEN {"REDUCING"} ELSE {})
        \cup (IF \E k \in Keys : <<r, 0>> \in store[k].writers THEN {"PERSISTING"} ELSE {})
        \cup (IF pc[r] = "done" THEN {"DONE"} ELSE {})

\* C19 (as claimed): every run passes through SEEDING, SAMPLING, BARRIER, FINDING,
\* GATHERING, REDUCING, PERSISTING, DONE in this order: a stage is finished only
\* when its predecessor is, and a finished stage is never entered again.
C19_StagesInOrder ==
    /\ [](\A r \in Runs : \A k \in 2..Len(Stages) :
             Stages[k] \in Passed(r) => Stages[k - 1] \in Passed(r))
    /\ [][\A r \in Runs :
             /\ Passed(r) \subseteq Passed(r)'
             /\ "FINDING" \in Passed(r) => found'[r] = found[r]
             /\ "GATHERING" \in Passed(r) => all_samples'[r] = all_samples[r]
             /\ "REDUCING" \in Passed(r) => final_result'[r] = final_result[r]
             /\ "PERSISTING" \in Passed(r) => store' = store]_vars

\* create_seeds, a sample task or the upload of a sample task of run r has failed
FailedBeforeBarrier(r) ==
    \/ pc[r] = "start" /\ error[r] # "none"
    \/ \E i \in DOMAIN tasks[r] : tasks[r][i].st = "failed"

\* C20: if create_seeds, a sample task or its upload fails, the run is aborted:
\* the find, gather and average steps never run and no final result is produced
\* or stored from the samples that remain.
C20_FailureBeforeBarrierAborts ==
    /\ [](\A r \in Runs : FailedBeforeBarrier(r) =>
             /\ pc[r] \in {"start", "parallel_for"}
             /\ ~found[r].ran
             /\ all_samples[r] = <<>>
             /\ final_result[r] = NoResult
             /\ \A k \in Keys : <<r, 0>> \notin store[k].writers)
    /\ [][\A r \in Runs : FailedBeforeBarrier(r) => FailedBeforeBarrier(r)']_vars

\* one sample task has failed while the results of the others are stored
C20_Witness ==
    \E r \in Runs : \E i, j \in DOMAIN tasks[r] :
        /\ tasks[r][i].st = "failed"
        /\ tasks[r][j].st = "done"
        /\ \A m \in DOMAIN tasks[r] : tasks[r][m].st \in {"done", "failed"}
        /\ ResultKeys(r) # {}

\* what a reader of the store can see: the keys and the text under each
Observable(st) == [k \in DOMAIN st |-> st[k].content]

\* C21: executing the upload twice with the same destination and the same file
\* leaves the store as one execution does, and the result set a later find and
\* gather give is the one of a run without the second execution.
C21_UploadIsIdempotent ==
    /\ [][(\E k \in Keys : store'[k].puts > store[k].puts)
             => Observable(store') = Observable(store)]_vars
    /\ [](\A r \in Runs : (variant[r] = "reusable" /\ found[r].ran) =>
             /\ Len(found[r].files) = Len(seeds[r])
             /\ SeqToSet(found[r].files) = ResultKeys(r)
             /\ pc[r] \in {"gathered", "averaged", "done"} =>
                   /\ Len(all_samples[r]) = Len(seeds[r])
                   /\ SumSeq(all_samples[r]) = TotalHits(seeds[r]))

\* a run has gathered its values after an upload was executed twice
C21_Witness ==
    \E r \in Runs : /\ pc[r] = "gathered"
                    /\ Len(all_samples[r]) >= 2
                    /\ \E k \in ResultKeys(r) : store[k].puts = MaxPuts

\* C22 (as claimed): in no execution is the Minio access key or secret key
\* written to the log of a step or to a stored object.
C22_CredentialsNeverLogged ==
    /\ \A r \in Runs : \A line \in StepLogs(r) : \A j \in DOMAIN line :
          line[j] \notin {minio_access_key, minio_secret_key}
    /\ \A k \in Keys : store[k].content \notin {minio_access_key, minio_secret_key}

\* C23: in my_pipeline the overall average never starts before avg_1 and avg_2
\* have both completed, while neither of avg_1 and avg_2 waits for the other.
C23_OverallAfterBothAverages ==
    "average_result_overall" \in DOMAIN ops =>
        /\ ops["average_result_overall"].status # "pending" =>
              /\ ops["avg_1"].status = "succeeded"
              /\ ops["avg_2"].status = "succeeded"
        /\ ops["avg_1"].status = "pending" => ENABLED StartOp("avg_1")
        /\ ops["avg_2"].status = "pending" => ENABLED StartOp("avg_2")

\* avg_1 and avg_2 run at the same time, the overall average waits
C23_Witness ==
    /\ "average_result_overall" \in DOMAIN ops
    /\ ops["avg_1"].status = "running"
    /\ ops["avg_2"].status = "running"
    /\ ops["average_result_overall"].status = "pending"

\* C24: when the connection setup or the copy fails in "Upload to Minio", the
\* step fails (StorageUnavailable) and has no Minio destination output, the
\* object is not stored and no later step takes it as stored; when the step
\* succeeds, its output is the destination it was given.
C24_UploadFailureHasNoOutput ==
    \A r \in Runs : variant[r] = "reusable" =>
        \A i \in DOMAIN tasks[r] :
            LET destination == output_location[r] \o <<"/">> \o RunId(r)
                               \o <<"/", "s", "e", "e", "d", "s">>
                               \o IntToStr(seeds[r][i]) \o <<"/">> \o result_out
            IN  /\ tasks[r][i].st = "failed" =>
                      /\ tasks[r][i].minio_destination = <<>>
                      /\ WrittenBy(r, i) = {}
                      /\ error[r] \in {"StorageUnavailable", "StepFailed"}
                      /\ ~found[r].ran
                /\ tasks[r][i].st = "done" =>
                      /\ tasks[r][i].minio_destination = destination
                      /\ WrittenBy(r, i) = {destination}
                /\ tasks[r][i].minio_destination # <<>> => tasks[r][i].st = "done"

\* an upload has failed after the sample was computed, another has succeeded
C24_Witness ==
    \E r \in Runs : \E i, j \in DOMAIN tasks[r] :
        /\ variant[r] = "reusable"
        /\ tasks[r][i].st = "failed" /\ tasks[r][i].result = 4
        /\ error[r] = "StorageUnavailable"
        /\ tasks[r][j].st = "done"
        /\ tasks[r][j].minio_destination # <<>>

\* a text has two '/' in a row
HasDoubleSlash(s) == \E j \in 1..(Len(s) - 1) : s[j] = "/" /\ s[j + 1] = "/"

\* C25 (as claimed): for every output_location, also one that ends in '/', the
\* run prefix is output_location without its trailing '/', then '/' and the run
\* id, so no storage path of the run has '//' in it.
C25_NoDoubleSlashInPaths ==
    \A r \in Runs : \A k \in Keys :
        (\E w \in store[k].writers : w[1] = r) =>
            /\ ~HasDoubleSlash(k)
            /\ StartsWith(k, rstrip_slash(StoreLocation(r)) \o <<"/">> \o RunId(r) \o <<"/">>)

\* the stored keys under the search location of run r whose name is
\* result.out.backup
BackupKeys(r) ==
    {k \in Keys : /\ StartsWith(k, SearchLocation(r) \o <<"/">>)
                  /\ EndsWith(k, <<"/">> \o result_out \o <<".", "b", "a", "c", "k", "u", "p">>)}

\* C26: the lightweight search pattern is not anchored at the end: a key such as
\* seed_10/result.out.backup under the search location is matched too, so
\* collect_results_as_list fetches and parses it and its value is one of the
\* averaged values.
C26_BackupKeyIsAveraged ==
    \A r \in Runs : (variant[r] = "lightweight" /\ found[r].ran) =>
        /\ BackupKeys(r) \subseteq SeqToSet(found[r].files)
        /\ Len(found[r].files) = Cardinality(SeqToSet(found[r].files))
        /\ pc[r] \in {"gathered", "done"} =>
              /\ Len(all_samples[r]) = Len(found[r].files)
              /\ \A j \in DOMAIN found[r].files :
                    all_samples[r][j] = ParseNumber(store[found[r].files[j]].content)
        /\ pc[r] = "done" =>
              final_result[r].num * Len(all_samples[r])
                  = final_result[r].den * Total(all_samples[r])

\* a lightweight run whose only sample missed has ended with the average 2: the
\* 4 of seed_10/result.out.backup was averaged with its own 0
C26_Witness ==
    /\ variant[1] = "lightweight"
    /\ pc[1] = "done"
    /\ n_samples[1] = 1
    /\ BackupKeys(1) = {SearchLocation(1) \o <<"/">> \o <<"s", "e", "e", "d", "_", "1", "0", "/", "r", "e", "s", "u", "l", "t", ".", "o", "u", "t", ".", "b", "a", "c", "k", "u", "p">>}
    /\ Len(all_samples[1]) = 2
    /\ final_result[1] = [num |-> 2, den |-> 1]

\* C27: the values a run of compute_pi gathers come only from objects written by
\* that same run: with two interleaved runs sharing output_location, the find
\* step of one run never returns a key the other run wrote, so neither average
\* includes a sample of the other run.
C27_FindReturnsOwnKeysOnly ==
    \A r \in Runs : found[r].ran =>
        /\ \A j \in DOMAIN found[r].files :
              LET k == found[r].files[j]
              IN  /\ k \in Keys
                  /\ store[k].writers # {}
                  /\ \A w \in store[k].writers : w[1] = r
        /\ Len(found[r].files) = n_samples[r]
        /\ pc[r] \in {"gathered", "averaged", "done"} =>
              /\ Len(all_samples[r]) = n_samples[r]
              /\ Total(all_samples[r]) = TotalHits(seeds[r])

\* both runs share output_location and variant, the first has found its keys
\* and gathered its values while the objects of the second were in the store
C27_Witness ==
    /\ variant[1] = variant[2]
    /\ output_location[1] = output_location[2]
    /\ pc[1] \in {"gathered", "averaged", "done"}
    /\ found[1].files # <<>>
    /\ found[2].ran
    /\ found[2].files # <<>>
    /\ \E k \in Keys : \E w \in store[k].writers : w[1] = 2 /\ w[2] > 0

\* C28: called with zero numbers the average_op factory raises ValueError and
\* creates no ContainerOp; called with one or more numbers it creates exactly one
\* ContainerOp, whose arguments are the given numbers in the given order.
C28_AverageOpFactory ==
    [][/\ Len(params') = 0 => (raised' = "ValueError" /\ ops' = ops)
       /\ Len(params') >= 1 =>
             /\ raised' = "none"
             /\ Len(ops') = Len(ops) + 1
             /\ SubSeq(ops', 1, Len(ops)) = ops
             /\ ops'[Len(ops')].arguments = params'
             /\ ops'[Len(ops')].name = "averge"]_vars

\* a first call with 4, 0, 0 has created one ContainerOp with these arguments and
\* a second call, with no numbers, has raised and created none
C28_Witness ==
    /\ params = <<>>
    /\ raised = "ValueError"
    /\ Len(ops) = 1
    /\ ops[1].arguments = <<4, 0, 0>>

\* an op of the Databricks pipeline has started
Started(o) == ops[o].status # "pending"

\* C29: in every run of pipeline_calc the four tasks execute in the order
\* create_cluster, submit_run, delete_run, delete_cluster: submit_run does not
\* start before create_cluster has produced cluster_id, delete_run not before
\* submit_run has completed, delete_cluster not before delete_run has completed.
C29_TasksInTotalOrder ==
    /\ Started("submit_run_task") =>
          /\ ops["create_cluster_task"].status = "succeeded"
          /\ ops["create_cluster_task"].output \in ClusterIds
    /\ Started("delete_run_task") => ops["submit_run_task"].status = "succeeded"
    /\ Started("delete_cluster_task") => ops["delete_run_task"].status = "succeeded"
    /\ Cardinality({o \in DOMAIN ops : ops[o].status = "running"}) <= 1

\* all four tasks have run
C29_Witness ==
    /\ DOMAIN ops = DOMAIN pipeline_calc
    /\ \A o \in DOMAIN ops : ops[o].status = "succeeded"
    /\ ops["create_cluster_task"].output \in ClusterIds

\* the cluster create_cluster has made is in the workspace
CreatedClusterRemains ==
    [cluster_name |-> params["cluster_name"],
     cluster_id |-> ops["create_cluster_task"].output] \in clusters

\* C30: delete_cluster executes only in runs where submit_run and delete_run have
\* both succeeded: there is no exit handler, so once submit_run or delete_run has
\* failed after create_cluster succeeded, delete_cluster is never started and
\* the created cluster remains.
C30_NoCleanupAfterFailure ==
    /\ Started("delete_cluster_task") =>
          /\ ops["submit_run_task"].status = "succeeded"
          /\ ops["delete_run_task"].status = "succeeded"
    /\ (/\ ops["create_cluster_task"].status = "succeeded"
        /\ \/ ops["submit_run_task"].status = "failed"
           \/ ops["delete_run_task"].status = "failed") =>
          /\ ops["delete_cluster_task"].status = "pending"
          /\ ~ENABLED StartOp("delete_cluster_task")
          /\ ~ENABLED NextPipelineCalc
          /\ CreatedClusterRemains

\* delete_run has failed after submit_run succeeded on the created cluster
C30_Witness ==
    /\ DOMAIN ops = DOMAIN pipeline_calc
    /\ ops["create_cluster_task"].status = "succeeded"
    /\ ops["submit_run_task"].status = "succeeded"
    /\ ops["delete_run_task"].status = "failed"
    /\ clusters # {}

====
